---- MODULE Spec2Model ----
(***************************************************************************)
(* A model of the DPLL satisfiability solver of src/src/sat.rs.            *)
(*                                                                         *)
(* A Formula is a sequence of Clauses, a Clause a sequence of Literals, a  *)
(* Literal Var(i) or Not(i) over a zero-based variable index i.  An        *)
(* Assignment is a sequence of booleans; the value of variable i is the    *)
(* element at position i + 1 (TLA+ sequences start at 1, Rust's Vec at 0). *)
(*                                                                         *)
(* Spec    runs check_sat on every formula within the bounds, one action   *)
(*         per step of dpll and one per iteration of unit_propagate.       *)
(* FairSpec is Spec with the fairness of a running sequential program.     *)
(* SpecFn  calls simplify and find_dominant_variable directly, the way the *)
(*         unit tests of sat.rs do, on every input within the bounds.      *)
(***************************************************************************)
EXTENDS Integers, Sequences, FiniteSets

\* Bounds of the explored inputs.
NumVars == 2
MaxClauses == 2
MaxLits == 4

VARIABLES
    input,    \* the formula handed to check_sat, or to the function under test
    vars,     \* the assignment buffer shared by all levels of the recursion
    stack,    \* the active dpll calls, outermost first
    ret,      \* the value the dpll call that just ended returned: "none", "true", "false"
    result,   \* check_sat: "idle", "running", "Some" (vars is the payload), "None"
    log,      \* history: per active dpll call, the writes it made to vars, in order
    chain,    \* history: the writes of the chain of calls that returned true
    touched,  \* history: the variables written by any call so far
    probe     \* the last direct call of a function under test and what it returned

state == <<input, vars, stack, ret, result, log, chain, touched, probe>>

----------------------------------------------------------------------------
\* Literals, clauses, formulas

Var(i) == [tag |-> "Var", idx |-> i]
Not(i) == [tag |-> "Not", idx |-> i]

Literals == {Var(i) : i \in 0..(NumVars - 1)} \cup {Not(i) : i \in 0..(NumVars - 1)}

Range(s) == {s[i] : i \in DOMAIN s}

\* The clause lengths of a formula: at most MaxClauses clauses holding at most
\* MaxLits literals in all.
RECURSIVE sum(_)
sum(s) == IF s = <<>> THEN 0 ELSE Head(s) + sum(Tail(s))

Shapes == {s \in UNION {[1..k -> 0..MaxLits] : k \in 0..MaxClauses} : sum(s) <= MaxLits}

\* The formula of the given clause lengths whose literals, read in order, are lits.
build(shape, lits) ==
    [j \in DOMAIN shape |->
        LET before == sum(SubSeq(shape, 1, j - 1))
        IN  [k \in 1..shape[j] |-> lits[before + k]]]

\* The literals of a formula in the order of the nested loops over it.
RECURSIVE flatten(_)
flatten(formula) ==
    IF formula = <<>> THEN <<>> ELSE Head(formula) \o flatten(Tail(formula))

----------------------------------------------------------------------------
\* simplify

\* Vec::swap(i, n - 1) followed by Vec::pop(), i zero-based.
swap_remove(s, i) ==
    [k \in 1..(Len(s) - 1) |-> IF k = i + 1 THEN s[Len(s)] ELSE s[k]]

contains(clause, lit) == \E k \in DOMAIN clause : clause[k] = lit

\* strip with the index advanced past the literal swapped into the freed place.
RECURSIVE strip_skip(_, _, _)
strip_skip(clause, literal_index, falsey_lit) ==
    IF literal_index >= Len(clause) THEN clause
    ELSE IF clause[literal_index + 1] = falsey_lit
         THEN strip_skip(swap_remove(clause, literal_index), literal_index + 1,
                         falsey_lit)
         ELSE strip_skip(clause, literal_index + 1, falsey_lit)

\* The inner loop of simplify from literal_index on.
RECURSIVE strip(_, _, _)
strip(clause, literal_index, falsey_lit) ==
    IF literal_index >= Len(clause) THEN clause
    ELSE IF clause[literal_index + 1] = falsey_lit
         THEN strip(swap_remove(clause, literal_index), literal_index, falsey_lit)
         ELSE strip(clause, literal_index + 1, falsey_lit)

\* simplify_from with the satisfied clause popped without the swap: the last
\* clause goes instead of the satisfied one.
RECURSIVE simplify_from_pop_last(_, _, _, _)
simplify_from_pop_last(formula, clause_index, truthy_lit, falsey_lit) ==
    IF clause_index >= Len(formula) THEN formula
    ELSE IF contains(formula[clause_index + 1], truthy_lit)
         THEN simplify_from_pop_last(SubSeq(formula, 1, Len(formula) - 1),
                                     clause_index, truthy_lit, falsey_lit)
         ELSE simplify_from_pop_last(
                  [formula EXCEPT ![clause_index + 1] = strip(@, 0, falsey_lit)],
                  clause_index + 1, truthy_lit, falsey_lit)

\* simplify_from with the index advanced past the clause swapped into the freed
\* place.
RECURSIVE simplify_from_skip(_, _, _, _)
simplify_from_skip(formula, clause_index, truthy_lit, falsey_lit) ==
    IF clause_index >= Len(formula) THEN formula
    ELSE IF contains(formula[clause_index + 1], truthy_lit)
         THEN simplify_from_skip(swap_remove(formula, clause_index),
                                 clause_index + 1, truthy_lit, falsey_lit)
         ELSE simplify_from_skip(
                  [formula EXCEPT ![clause_index + 1] = strip(@, 0, falsey_lit)],
                  clause_index + 1, truthy_lit, falsey_lit)

\* The outer loop of simplify from clause_index on.
RECURSIVE simplify_from(_, _, _, _)
simplify_from(formula, clause_index, truthy_lit, falsey_lit) ==
    IF clause_index >= Len(formula) THEN formula
    ELSE IF contains(formula[clause_index + 1], truthy_lit)
         THEN simplify_from(swap_remove(formula, clause_index), clause_index,
                            truthy_lit, falsey_lit)
         ELSE simplify_from(
                  [formula EXCEPT ![clause_index + 1] = strip(@, 0, falsey_lit)],
                  clause_index + 1, truthy_lit, falsey_lit)

\* simplify that also drops the clauses left empty.
simplify_drop_empty(formula, var, truth) ==
    LET truthy_lit == IF truth THEN Var(var) ELSE Not(var)
        falsey_lit == IF truth THEN Not(var) ELSE Var(var)
    IN  SelectSeq(simplify_from(formula, 0, truthy_lit, falsey_lit),
                  LAMBDA clause : clause # <<>>)

\* simplify that removes the satisfied clauses and strips no literal.
simplify_no_strip(formula, var, truth) ==
    LET truthy_lit == IF truth THEN Var(var) ELSE Not(var)
    IN  SelectSeq(formula, LAMBDA clause : ~contains(clause, truthy_lit))

simplify(formula, var, truth) ==
    LET truthy_lit == IF truth THEN Var(var) ELSE Not(var)
        falsey_lit == IF truth THEN Not(var) ELSE Var(var)
    IN  simplify_from(formula, 0, truthy_lit, falsey_lit)

----------------------------------------------------------------------------
\* find_dominant_variable

\* freqs[i] after the counting loops: the literals of the formula over variable i.
freq_of(formula, i) ==
    LET lits == flatten(formula)
    IN  Cardinality({k \in DOMAIN lits : lits[k].idx = i})

\* scan_max with the comparison turned round: no frequency is below 0.
RECURSIVE scan_max_lt(_, _, _, _, _)
scan_max_lt(formula, n_vars, i, max, argmax) ==
    IF i >= n_vars THEN argmax
    ELSE IF freq_of(formula, i) < max
         THEN scan_max_lt(formula, n_vars, i + 1, freq_of(formula, i), i)
         ELSE scan_max_lt(formula, n_vars, i + 1, max, argmax)

\* scan_max with >= for >: the last maximum wins.
RECURSIVE scan_max_ge(_, _, _, _, _)
scan_max_ge(formula, n_vars, i, max, argmax) ==
    IF i >= n_vars THEN argmax
    ELSE IF freq_of(formula, i) >= max
         THEN scan_max_ge(formula, n_vars, i + 1, freq_of(formula, i), i)
         ELSE scan_max_ge(formula, n_vars, i + 1, max, argmax)

\* The scan for the maximum from index i on, with the running max and argmax.
RECURSIVE scan_max(_, _, _, _, _)
scan_max(formula, n_vars, i, max, argmax) ==
    IF i >= n_vars THEN argmax
    ELSE IF freq_of(formula, i) > max
         THEN scan_max(formula, n_vars, i + 1, freq_of(formula, i), i)
         ELSE scan_max(formula, n_vars, i + 1, max, argmax)

find_dominant_variable(formula, n_vars) == scan_max(formula, n_vars, 0, 0, 0)

----------------------------------------------------------------------------
\* unit_propagate

has_unit(formula) == \E k \in DOMAIN formula : Len(formula[k]) = 1

\* first_unit searching from the back: the last unit clause.
last_unit(formula) ==
    formula[CHOOSE k \in DOMAIN formula :
                /\ Len(formula[k]) = 1
                /\ \A j \in (k + 1)..Len(formula) : Len(formula[j]) # 1]

\* formula.iter().find(|clause| clause.len() == 1): the first unit clause.
first_unit(formula) ==
    formula[CHOOSE k \in DOMAIN formula :
                /\ Len(formula[k]) = 1
                /\ \A j \in 1..(k - 1) : Len(formula[j]) # 1]

\* The (var, truth) a unit clause implies.
implied(clause) ==
    IF clause[1].tag = "Var" THEN <<clause[1].idx, TRUE>> ELSE <<clause[1].idx, FALSE>>

\* write that trusts the buffer to hold false already and stores only true.
write_true_only(assignment, var, truth) ==
    IF truth THEN [assignment EXCEPT ![var + 1] = TRUE] ELSE assignment

\* vars[var] = truth
write(assignment, var, truth) == [assignment EXCEPT ![var + 1] = truth]

----------------------------------------------------------------------------
\* check_sat and dpll

\* count_vars with > for >=: an index equal to the count does not raise it.
RECURSIVE count_vars_gt(_, _, _)
count_vars_gt(lits, k, n_vars) ==
    IF k > Len(lits) THEN n_vars
    ELSE IF lits[k].idx > n_vars
         THEN count_vars_gt(lits, k + 1, lits[k].idx + 1)
         ELSE count_vars_gt(lits, k + 1, n_vars)

\* The loop of check_sat over the literals from position k on.
RECURSIVE count_vars(_, _, _)
count_vars(lits, k, n_vars) ==
    IF k > Len(lits) THEN n_vars
    ELSE IF lits[k].idx >= n_vars
         THEN count_vars(lits, k + 1, lits[k].idx + 1)
         ELSE count_vars(lits, k + 1, n_vars)

n_vars_of(formula) == count_vars(flatten(formula), 1, 0)

\* second_branch without the negation: the first branch over again.
second_branch_same(var) == <<Var(var)>>

\* The synthetic unit clauses of the two branches.
first_branch(var) == <<Var(var)>>
second_branch(var) == <<Not(var)>>

Top == stack[Len(stack)]
Propagating == stack # <<>> /\ ret = "none" /\ Top.pc = "propagate"
WithTop(frame) == [stack EXCEPT ![Len(stack)] = frame]
Pop(s) == SubSeq(s, 1, Len(s) - 1)

Init ==
    /\ \E shape \in Shapes : \E lits \in [1..sum(shape) -> Literals] :
          input = build(shape, lits)
    /\ vars = <<>>
    /\ stack = <<>>
    /\ ret = "none"
    /\ result = "idle"
    /\ log = <<>>
    /\ chain = <<>>
    /\ touched = {}
    /\ probe = [op |-> "none"]

\* check_sat up to its call of dpll, and the entry of that call.
CheckSat ==
    /\ result = "idle"
    /\ probe.op = "none"
    /\ result' = "running"
    /\ vars' = [k \in 1..n_vars_of(input) |-> FALSE]
    /\ stack' = <<[formula |-> input, pc |-> "propagate"]>>
    /\ log' = <<<<>>>>
    /\ UNCHANGED <<input, ret, chain, touched, probe>>

\* One iteration of the loop of unit_propagate in the innermost dpll call.
UnitPropagateStep ==
    /\ Propagating
    /\ has_unit(Top.formula)
    /\ LET vt == implied(first_unit(Top.formula))
       IN  /\ vars' = write(vars, vt[1], vt[2])
           /\ stack' = WithTop([Top EXCEPT !.formula = simplify(@, vt[1], vt[2])])
           /\ log' = [log EXCEPT ![Len(log)] = Append(@, vt)]
           /\ touched' = touched \cup {vt[1]}
    /\ UNCHANGED <<input, ret, result, chain, probe>>

\* After propagation the formula is empty: the call returns true.
DpllSatisfied ==
    /\ Propagating
    /\ ~has_unit(Top.formula)
    /\ Top.formula = <<>>
    /\ ret' = "true"
    /\ chain' = flatten(log)
    /\ stack' = Pop(stack)
    /\ log' = Pop(log)
    /\ UNCHANGED <<input, vars, result, touched, probe>>

\* After propagation some clause is empty: the call returns false.
DpllConflict ==
    /\ Propagating
    /\ ~has_unit(Top.formula)
    /\ Top.formula # <<>>
    /\ \E k \in DOMAIN Top.formula : Top.formula[k] = <<>>
    /\ ret' = "false"
    /\ stack' = Pop(stack)
    /\ log' = Pop(log)
    /\ UNCHANGED <<input, vars, result, chain, touched, probe>>

\* Neither: split on the dominant variable and enter the first recursive call.
DpllBranch ==
    /\ Propagating
    /\ ~has_unit(Top.formula)
    /\ Top.formula # <<>>
    /\ \A k \in DOMAIN Top.formula : Top.formula[k] # <<>>
    /\ LET var == find_dominant_variable(Top.formula, Len(vars))
           pushed == Append(Top.formula, first_branch(var))
       IN  stack' = Append(WithTop([formula |-> pushed, pc |-> "first", var |-> var]),
                           [formula |-> pushed, pc |-> "propagate"])
    /\ log' = Append(log, <<>>)
    /\ UNCHANGED <<input, vars, ret, result, chain, touched, probe>>

\* The first recursive call returned: true goes up, false enters the second call.
DpllAfterFirst ==
    /\ stack # <<>>
    /\ ret # "none"
    /\ Top.pc = "first"
    /\ \/ /\ ret = "true"
          /\ stack' = Pop(stack)
          /\ log' = Pop(log)
          /\ UNCHANGED ret
       \/ /\ ret = "false"
          /\ LET pushed == Append(Pop(Top.formula), second_branch(Top.var))
             IN  stack' = Append(WithTop([Top EXCEPT !.formula = pushed, !.pc = "second"]),
                                 [formula |-> pushed, pc |-> "propagate"])
          /\ log' = Append(log, <<>>)
          /\ ret' = "none"
    /\ UNCHANGED <<input, vars, result, chain, touched, probe>>

\* The second recursive call returned: its value is the value of this call.
DpllAfterSecond ==
    /\ stack # <<>>
    /\ ret # "none"
    /\ Top.pc = "second"
    /\ stack' = Pop(stack)
    /\ log' = Pop(log)
    /\ UNCHANGED <<input, vars, ret, result, chain, touched, probe>>

\* The outermost dpll call returned to check_sat.
CheckSatReturn ==
    /\ result = "running"
    /\ stack = <<>>
    /\ ret # "none"
    /\ result' = IF ret = "true" THEN "Some" ELSE "None"
    /\ UNCHANGED <<input, vars, stack, ret, log, chain, touched, probe>>

Next ==
    \/ CheckSat
    \/ UnitPropagateStep
    \/ DpllSatisfied
    \/ DpllConflict
    \/ DpllBranch
    \/ DpllAfterFirst
    \/ DpllAfterSecond
    \/ CheckSatReturn

Spec == Init /\ [][Next]_state

FairSpec == Spec /\ WF_state(Next)

----------------------------------------------------------------------------
\* Direct calls of the helper functions, as in the unit tests of sat.rs

TestSimplify ==
    /\ result = "idle"
    /\ \E var \in 0..(NumVars - 1), truth \in BOOLEAN :
          probe' = [op |-> "simplify", var |-> var, truth |-> truth,
                    out |-> simplify(input, var, truth)]
    /\ UNCHANGED <<input, vars, stack, ret, result, log, chain, touched>>

TestFindDominantVariable ==
    /\ result = "idle"
    /\ \E n_vars \in n_vars_of(input)..NumVars :
          probe' = [op |-> "find_dominant_variable", n_vars |-> n_vars,
                    out |-> find_dominant_variable(input, n_vars)]
    /\ UNCHANGED <<input, vars, stack, ret, result, log, chain, touched>>

NextFn ==
    \/ TestSimplify
    \/ TestFindDominantVariable

SpecFn == Init /\ [][NextFn]_state

----------------------------------------------------------------------------
\* What the claims speak of

lit_true(lit, assignment) ==
    IF lit.tag = "Var" THEN assignment[lit.idx + 1] ELSE ~assignment[lit.idx + 1]

\* Every clause of the formula holds a literal that is true under the assignment.
satisfies(assignment, formula) ==
    \A c \in DOMAIN formula : \E k \in DOMAIN formula[c] : lit_true(formula[c][k], assignment)

has_duplicate(clause) ==
    \E j, k \in DOMAIN clause : j < k /\ clause[j] = clause[k]

has_empty_clause(formula) == \E c \in DOMAIN formula : formula[c] = <<>>

Returned == result \in {"Some", "None"}

\* The variables written by the chain of dpll calls that returned true.
chain_vars == {chain[k][1] : k \in DOMAIN chain}

\* The variables some literal of the formula refers to.
referenced(formula) ==
    UNION {{formula[c][k].idx : k \in DOMAIN formula[c]} : c \in DOMAIN formula}

\* The number of literals of the formula over variable i, a clause holding the
\* variable twice counted twice.
occurrences(formula, i) ==
    Cardinality({ck \in {<<c, k>> : c \in DOMAIN formula, k \in 1..MaxLits + 1} :
                    /\ ck[2] \in DOMAIN formula[ck[1]]
                    /\ formula[ck[1]][ck[2]].idx = i})

\* A sequence as a multiset.
bag_of(s) == [x \in Range(s) |-> Cardinality({k \in DOMAIN s : s[k] = x})]

\* A formula as a multiset of clauses, each clause a multiset of literals.
clause_bags(formula) == bag_of([c \in DOMAIN formula |-> bag_of(formula[c])])

\* The clause without its repeated literals, first occurrences kept in order.
RECURSIVE dedup(_)
dedup(clause) ==
    IF clause = <<>> THEN <<>>
    ELSE LET front == dedup(SubSeq(clause, 1, Len(clause) - 1))
             last == clause[Len(clause)]
         IN  IF last \in Range(front) THEN front ELSE Append(front, last)

TopFormula == Top.formula
TopLog == log[Len(log)]

\* C1: an assignment check_sat returns makes every clause of the formula true.
C1_Soundness == result = "Some" => satisfies(vars, input)

\* check_sat returned an assignment for a formula with a duplicate-literal
\* clause, after a branch that failed left a write that the successful chain
\* never made.
C1_Witness ==
    /\ result = "Some"
    /\ \E c \in DOMAIN input : has_duplicate(input[c])
    /\ touched \ chain_vars # {}

\* C2: check_sat returns None only if no assignment of the variables makes
\* every clause of the formula true.
C2_Completeness ==
    result = "None" => ~\E a \in [1..Len(vars) -> BOOLEAN] : satisfies(a, input)

\* check_sat returned None for a formula with neither an empty nor a unit
\* clause: both branches of a split failed.
C2_Witness ==
    /\ result = "None"
    /\ input # <<>>
    /\ \A c \in DOMAIN input : Len(input[c]) >= 2

\* The variables written by the dpll calls now active, up to call d.
path_vars(d) == {flatten(SubSeq(log, 1, d))[k][1] : k \in DOMAIN flatten(SubSeq(log, 1, d))}

\* Each call below the top-level one was entered for a variable that no call
\* above it on the path had written, and the first write it makes is to it.
NewVariableForced ==
    \A d \in 2..Len(stack) :
        /\ stack[d - 1].var \notin path_vars(d - 1)
        /\ log[d] # <<>> => log[d][1][1] = stack[d - 1].var
        /\ (d < Len(stack) \/ ret # "none") => log[d] # <<>>

\* C3: the dpll calls nested below the top-level call never outnumber the
\* variables the assignment was sized for, each of them forcing a variable not
\* yet forced on its path, and check_sat comes to return.
C3_DepthBoundedAndTerminates ==
    /\ [](result = "running" => Len(stack) <= Len(vars) + 1)
    /\ []NewVariableForced
    /\ <>Returned

\* The recursion is as deep as the variable count allows.
C3_Witness ==
    /\ result = "running"
    /\ Len(vars) = NumVars
    /\ Len(stack) = Len(vars) + 1

\* C4: for a formula with an empty clause check_sat returns None; the empty
\* clause stays in the working formula of the dpll call until it returns.
C4_EmptyClauseUnsat ==
    has_empty_clause(input) =>
        /\ result # "Some"
        /\ \A d \in DOMAIN stack : has_empty_clause(stack[d].formula)

\* check_sat returned None for a formula with an empty clause whose other
\* clauses are satisfiable, after unit propagation simplified the formula.
C4_Witness ==
    /\ result = "None"
    /\ has_empty_clause(input)
    /\ touched # {}
    /\ \E a \in [1..Len(vars) -> BOOLEAN] :
          satisfies(a, SelectSeq(input, LAMBDA clause : clause # <<>>))

\* C5: from its allocation on the assignment has one entry per variable index
\* up to the highest one referenced, none when there is no literal, and the
\* empty formula yields Some of the empty assignment.
C5_AssignmentLength ==
    /\ result # "idle" =>
          /\ referenced(input) = {} => Len(vars) = 0
          /\ referenced(input) # {} =>
                /\ Len(vars) - 1 \in referenced(input)
                /\ \A i \in referenced(input) : i <= Len(vars) - 1
    /\ (Returned /\ input = <<>>) => (result = "Some" /\ vars = <<>>)

\* check_sat returned an assignment after writes to it, for a formula whose
\* highest variable is not the one of its last literal.
C5_Witness ==
    /\ result = "Some"
    /\ chain # <<>>
    /\ Len(vars) = NumVars
    /\ flatten(input)[Len(flatten(input))].idx < NumVars - 1

\* C6: simplify yields, as a multiset of clauses each a multiset of literals,
\* the clauses without the now-true literal, each without the now-false one.
C6_SimplifyPostcondition ==
    probe.op = "simplify" =>
        LET truthy == IF probe.truth THEN Var(probe.var) ELSE Not(probe.var)
            falsey == IF probe.truth THEN Not(probe.var) ELSE Var(probe.var)
            kept == SelectSeq(input, LAMBDA clause : truthy \notin Range(clause))
            expected == [c \in DOMAIN kept |->
                            SelectSeq(kept[c], LAMBDA lit : lit # falsey)]
        IN  clause_bags(probe.out) = clause_bags(expected)

\* simplify ran on a formula with a satisfied clause, and a clause holding the
\* now-false literal twice beside another literal.
C6_Witness ==
    /\ probe.op = "simplify"
    /\ LET truthy == IF probe.truth THEN Var(probe.var) ELSE Not(probe.var)
           falsey == IF probe.truth THEN Not(probe.var) ELSE Var(probe.var)
       IN  /\ \E c \in DOMAIN input : truthy \in Range(input[c])
           /\ \E c \in DOMAIN input :
                 /\ truthy \notin Range(input[c])
                 /\ Cardinality({k \in DOMAIN input[c] : input[c][k] = falsey}) >= 2
                 /\ \E k \in DOMAIN input[c] : input[c][k].idx # probe.var

\* An iteration of the loop of unit_propagate is about to run.
InLoop == Propagating /\ has_unit(TopFormula)

\* The position of the first clause of length 1.
FirstUnitAt(formula) ==
    CHOOSE k \in DOMAIN formula :
        Len(formula[k]) = 1 /\ \A j \in 1..(k - 1) : Len(formula[j]) # 1

\* C7: an iteration of unit_propagate writes the value the first unit clause
\* implies and leaves fewer clauses; no call stays in the loop for ever, and
\* when the loop is left no unit clause is.
C7_UnitPropagate ==
    /\ [][InLoop =>
            LET lit == TopFormula[FirstUnitAt(TopFormula)][1]
            IN  /\ Len(stack') = Len(stack)
                /\ Len(TopFormula') < Len(TopFormula)
                /\ vars' = [vars EXCEPT ![lit.idx + 1] = (lit.tag = "Var")]]_state
    /\ [][(Propagating /\ Len(stack') # Len(stack)) => ~has_unit(TopFormula)]_state
    /\ []<>~InLoop

\* The loop ended after two iterations or more in one call.
C7_Witness ==
    /\ Propagating
    /\ ~has_unit(TopFormula)
    /\ Len(TopLog) >= 2

\* The formula with the repeated literals of clause c removed.
dedup_at(formula, c) == [formula EXCEPT ![c] = dedup(@)]

\* C8 as stated: simplify of a formula and of the formula with the duplicate
\* literals of one clause removed give the same formula.
C8_SameFormula ==
    probe.op = "simplify" =>
        \A c \in DOMAIN input :
            has_duplicate(input[c]) =>
                simplify(dedup_at(input, c), probe.var, probe.truth) = probe.out

\* C8 as amended: the two results hold the same number of clauses, and clause
\* by clause the same set of literals.
C8_SameClauseSets ==
    probe.op = "simplify" =>
        \A c \in DOMAIN input :
            has_duplicate(input[c]) =>
                LET other == simplify(dedup_at(input, c), probe.var, probe.truth)
                IN  /\ Len(other) = Len(probe.out)
                    /\ \A k \in DOMAIN other : Range(other[k]) = Range(probe.out[k])

\* simplify ran on a formula with a clause that repeats the now-false literal
\* and survives, and a clause it removes.
C8_Witness ==
    /\ probe.op = "simplify"
    /\ LET truthy == IF probe.truth THEN Var(probe.var) ELSE Not(probe.var)
           falsey == IF probe.truth THEN Not(probe.var) ELSE Var(probe.var)
       IN  /\ \E c \in DOMAIN input : truthy \in Range(input[c])
           /\ \E c \in DOMAIN input :
                 /\ has_duplicate(input[c])
                 /\ truthy \notin Range(input[c])
                 /\ falsey \in Range(input[c])
                 /\ Len(probe.out) >= 1

\* The last value the chain of calls that returned true wrote for variable i.
chain_value(i) ==
    chain[CHOOSE k \in DOMAIN chain :
              chain[k][1] = i /\ \A j \in (k + 1)..Len(chain) : chain[j][1] # i][2]

\* C9 as stated: a returned assignment holds, for each variable, the value the
\* chain of calls that returned true wrote, and false where it wrote none.
C9_ExactlyChainWrites ==
    result = "Some" =>
        \A i \in 0..(Len(vars) - 1) :
            vars[i + 1] = IF i \in chain_vars THEN chain_value(i) ELSE FALSE

\* C9 as amended: a returned assignment holds, for each variable the chain of
\* calls that returned true wrote, the value written there, and false for each
\* variable no call wrote at all.
C9_ChainWritesKept ==
    result = "Some" =>
        \A i \in 0..(Len(vars) - 1) :
            /\ i \in chain_vars => vars[i + 1] = chain_value(i)
            /\ i \notin touched => vars[i + 1] = FALSE

\* check_sat returned an assignment holding true for a variable that only a
\* failed branch wrote, beside variables the chain wrote and one no call wrote.
C9_Witness ==
    /\ result = "Some"
    /\ chain # <<>>
    /\ \E i \in touched \ chain_vars : vars[i + 1] = TRUE

\* C10: find_dominant_variable returns the lowest index among the variables
\* with the most literals, and 0 when no variable occurs.
C10_DominantVariable ==
    probe.op = "find_dominant_variable" =>
        LET out == probe.out
            indices == 0..(probe.n_vars - 1)
        IN  IF \A i \in indices : occurrences(input, i) = 0
            THEN out = 0
            ELSE /\ out \in indices
                 /\ \A j \in indices : occurrences(input, j) <= occurrences(input, out)
                 /\ \A j \in 0..(out - 1) : occurrences(input, j) < occurrences(input, out)

\* find_dominant_variable ran on a formula where two variables tie for the
\* most literals and a clause holds one variable twice.
C10_Witness ==
    /\ probe.op = "find_dominant_variable"
    /\ \E i, j \in 0..(probe.n_vars - 1) :
          /\ i < j
          /\ occurrences(input, i) = occurrences(input, j)
          /\ occurrences(input, i) > 0
          /\ \A k \in 0..(probe.n_vars - 1) : occurrences(input, k) <= occurrences(input, i)
    /\ \E c \in DOMAIN input : \E j, k \in DOMAIN input[c] :
          j < k /\ input[c][j].idx = input[c][k].idx

\* The writes of the dpll calls now active, outermost call first.
path_writes == flatten(log)

\* C11: no variable written on the path down to a dpll call occurs in that
\* call's working formula, the variable a call split on occurs in the formula
\* it had when it split, and no variable is written twice on one path, nor on
\* the chain of calls that returned true.
C11_SearchInvariant ==
    /\ \A d \in DOMAIN stack :
          /\ referenced(stack[d].formula) \cap path_vars(d) = {}
          /\ stack[d].pc # "propagate" =>
                stack[d].var \in referenced(Pop(stack[d].formula))
    /\ \A j, k \in DOMAIN path_writes :
          path_writes[j][1] = path_writes[k][1] => j = k
    /\ \A j, k \in DOMAIN chain : chain[j][1] = chain[k][1] => j = k

\* A call two levels below check_sat's ended propagation with clauses left, in
\* the second branch of its parent, after a write on the path.
C11_Witness ==
    /\ Len(stack) >= 2
    /\ Propagating
    /\ ~has_unit(TopFormula)
    /\ TopFormula # <<>>
    /\ stack[Len(stack) - 1].pc = "second"
    /\ Len(path_writes) >= 1

====
